---- MODULE Spec2Model ----
(***************************************************************************)
(* A model of optimalrotas: the data types (Role, Employee, EmployeePool, *)
(* Project), the staffing operations (StaffedProject,                     *)
(* randomly_staff_project, Schedule.from_projects / from_assignments) and *)
(* the schedule rendering (Schedule.display and its date helpers).        *)
(*                                                                         *)
(* Python values are represented as follows.                               *)
(*   - str used only as a key or label: a TLA+ string.                     *)
(*   - str that is sliced or measured (project names, display lines):      *)
(*     a sequence of one-character strings.                                *)
(*   - dict: a sequence of [key, val] records in insertion order.          *)
(*   - Employee: a reference ("e1", ...) whose fields are read through     *)
(*     EmployeeName and EmployeeRole; None is the string "None".           *)
(*   - date: its proleptic ordinal (date.toordinal()), an integer.         *)
(***************************************************************************)
EXTENDS Integers, Sequences, FiniteSets, TLC

VARIABLES
    team,              \* Project.__init__: the `team` argument
    team_needed,       \* Project.__init__: the resulting team_needed dict
    project_name,      \* get_project_name_for_display: its argument
    row_title,         \* get_project_name_for_display: its result
    employees,         \* EmployeePool.__init__: the `employees` argument
    pool,              \* EmployeePool.pool (a defaultdict(list))
    projects,          \* Schedule.from_projects: the `projects` argument
    pc,                \* position of the running call
    assigned_roles,    \* randomly_staff_project: local dict being filled
    staffed_projects,  \* Schedule.from_projects: local list
    schedule,          \* the Schedule object the caller holds
    staffed,           \* a StaffedProject object the caller holds
    op,                \* the last operation called, with its arguments
    ret,               \* what the last operation returned or raised
    display_out        \* Schedule.display: the lines of its result

vars == <<team, team_needed, project_name, row_title, employees, pool,
          projects, pc, assigned_roles, staffed_projects, schedule,
          staffed, op, ret, display_out>>

---------------------------------------------------------------------------
(* Bounds of the model *)

MaxTeamLen == 4
MaxNameLen == 22
MaxNamePatterns == 3
MaxPoolSize == 3
MaxProjects == 2
MaxDay == 22

(* Program constants *)

PROJECT_NAME_LEN_CHARS == 20
DAYS_PER_WEEK == 7

None == "None"
Idle == "idle"

---------------------------------------------------------------------------
(* Generic helpers: sequences and insertion-ordered dicts *)

Min(a, b) == IF a < b THEN a ELSE b
Max(a, b) == IF a > b THEN a ELSE b

SeqsUpTo(S, n) == UNION {[1..k -> S] : k \in 0..n}

\* s * n for a Python sequence/str s: empty when n <= 0
RECURSIVE Repeat(_, _)
Repeat(s, n) == IF n <= 0 THEN <<>> ELSE s \o Repeat(s, n - 1)

\* s[:n] for n >= 0
SliceTo(s, n) == SubSeq(s, 1, Min(n, Len(s)))

DictKeys(d) == {d[k].key : k \in DOMAIN d}
DictHas(d, key) == \E k \in DOMAIN d : d[k].key = key
DictGet(d, key) == d[CHOOSE k \in DOMAIN d : d[k].key = key].val
\* d[key] = val: overwrite in place, or append a new entry
DictSet(d, key, val) ==
    IF DictHas(d, key)
    THEN [k \in DOMAIN d |-> IF d[k].key = key THEN [key |-> key, val |-> val] ELSE d[k]]
    ELSE Append(d, [key |-> key, val |-> val])
\* d.update(other)
RECURSIVE DictUpdate(_, _)
DictUpdate(d, other) ==
    IF other = <<>> THEN d
    ELSE DictUpdate(DictSet(d, Head(other).key, Head(other).val), Tail(other))

---------------------------------------------------------------------------
(* data_types.py: Role, Employee *)

Roles == {"COMMERCIAL", "TECHNICAL", "OVERSIGHT"}

\* Four Employee objects.  e1 and e2 carry the same name and role, so they
\* are equal as dataclass values and distinct as objects.
Employees == {"e1", "e2", "e3", "e4"}

EmployeeName(e) ==
    CASE e = "e1" -> "Ann" [] e = "e2" -> "Ann" [] e = "e3" -> "Bob" [] e = "e4" -> "Cy"

EmployeeRole(e) ==
    CASE e = "e1" -> "TECHNICAL" [] e = "e2" -> "TECHNICAL"
      [] e = "e3" -> "COMMERCIAL" [] e = "e4" -> "OVERSIGHT"

---------------------------------------------------------------------------
(* data_types.py: Project.__init__ *)

\* f"{role.name}_{counter[role]}"
SlotId(role, n) == role \o "_" \o ToString(n)

EmptyCounter == [r \in Roles |-> 0]

\* variant: one counter shared by all roles
CounterUpdateShared(counter, role) == [r \in Roles |-> counter[r] + 1]

\* counter.update([role])
CounterUpdate(counter, role) == [counter EXCEPT ![role] = @ + 1]

\* the loop of Project.__init__, from element k of team on
RECURSIVE ProjectLoop(_, _, _, _)
ProjectLoop(tm, k, counter, tn) ==
    IF k > Len(tm) THEN tn
    ELSE LET role == tm[k]
             c2 == CounterUpdate(counter, role)
         IN ProjectLoop(tm, k + 1, c2, DictSet(tn, SlotId(role, c2[role]), role))

ProjectTeamNeeded(tm) == ProjectLoop(tm, 1, EmptyCounter, <<>>)

Project(start_date, end_date, tm, name) ==
    [start_date |-> start_date, end_date |-> end_date,
     team_needed |-> ProjectTeamNeeded(tm), project_name |-> name]

---------------------------------------------------------------------------
(* schedule.py: get_project_name_for_display *)

\* variant: the length test written with > instead of >=
GetProjectNameForDisplayStrict(name) ==
    IF Len(name) > PROJECT_NAME_LEN_CHARS
    THEN SliceTo(name, PROJECT_NAME_LEN_CHARS - 1) \o <<":">>
    ELSE name \o Repeat(<<" ">>, PROJECT_NAME_LEN_CHARS - Len(name) - 1) \o <<":">>

get_project_name_for_display(name) ==
    IF Len(name) >= PROJECT_NAME_LEN_CHARS
    THEN SliceTo(name, PROJECT_NAME_LEN_CHARS - 1) \o <<":">>
    ELSE LET n_spaces_required == PROJECT_NAME_LEN_CHARS - Len(name) - 1
         IN name \o Repeat(<<" ">>, n_spaces_required) \o <<":">>

NameAlphabet == <<"a", " ", ":", "b", "_">>

NameOf(len, p) == [k \in 1..len |-> NameAlphabet[((k * p) % Len(NameAlphabet)) + 1]]

Names == {NameOf(len, p) : len \in 0..MaxNameLen, p \in 1..MaxNamePatterns}

---------------------------------------------------------------------------
(* Idle values of the variables a specification does not use *)

IdleProject == team = <<>> /\ team_needed = <<>>
IdleName == project_name = <<>> /\ row_title = <<>>
IdlePool == employees = <<>> /\ pool = <<>>
IdleAlloc ==
    /\ projects = <<>> /\ assigned_roles = <<>>
    /\ staffed_projects = <<>> /\ schedule = [assignments |-> <<>>]
IdleStaffed == staffed = [project |-> <<>>, assigments |-> <<>>]
IdleOp == op = [name |-> Idle] /\ ret = [kind |-> Idle]
IdleDisplay == display_out = <<>>

---------------------------------------------------------------------------
(* SpecProject: Project construction over every team up to MaxTeamLen *)

InitProject ==
    /\ team \in SeqsUpTo(Roles, MaxTeamLen)
    /\ team_needed = <<>>
    /\ pc = "call"
    /\ IdleName /\ IdlePool /\ IdleAlloc /\ IdleStaffed /\ IdleOp /\ IdleDisplay

ProjectNew ==
    /\ pc = "call"
    /\ team_needed' = ProjectTeamNeeded(team)
    /\ pc' = "return"
    /\ UNCHANGED <<team, project_name, row_title, employees, pool, projects,
                   assigned_roles, staffed_projects, schedule, staffed, op, ret,
                   display_out>>

NextProject == ProjectNew

SpecProject == InitProject /\ [][NextProject]_vars

\* number of occurrences of role in tm[1..k]
Occurrences(tm, role, k) == Cardinality({j \in 1..k : tm[j] = role})

\* C5: team_needed has one slot id per element of the role sequence; the
\* k-th occurrence of role R yields the id "R_k" mapped to R, ids appear in
\* input order, and the ids of each role are exactly R_1..R_n.
C5_SlotIds ==
    pc = "return" =>
        /\ Len(team_needed) = Len(team)
        /\ Cardinality(DictKeys(team_needed)) = Len(team)
        /\ \A k \in 1..Len(team) :
              /\ team_needed[k].key
                    = team[k] \o "_" \o ToString(Occurrences(team, team[k], k))
              /\ team_needed[k].val = team[k]
        /\ \A r \in Roles :
              {e.key : e \in {team_needed[k] : k \in {j \in 1..Len(team_needed) :
                                                       team_needed[j].val = r}}}
                = {r \o "_" \o ToString(n) : n \in 1..Occurrences(team, r, Len(team))}

C5_Witness ==
    /\ team = <<"TECHNICAL", "COMMERCIAL", "TECHNICAL">>
    /\ pc = "return"
    /\ DictKeys(team_needed) = {"TECHNICAL_1", "COMMERCIAL_1", "TECHNICAL_2"}

---------------------------------------------------------------------------
(* SpecName: get_project_name_for_display over names of every length *)

InitName ==
    /\ project_name \in Names
    /\ row_title = <<>>
    /\ pc = "call"
    /\ IdleProject /\ IdlePool /\ IdleAlloc /\ IdleStaffed /\ IdleOp /\ IdleDisplay

DisplayName ==
    /\ pc = "call"
    /\ row_title' = get_project_name_for_display(project_name)
    /\ pc' = "return"
    /\ UNCHANGED <<team, team_needed, project_name, employees, pool, projects,
                   assigned_roles, staffed_projects, schedule, staffed, op, ret,
                   display_out>>

NextName == DisplayName

SpecName == InitName /\ [][NextName]_vars

\* C8: the display name is exactly 20 characters long and ends in ":"; a
\* name of 20 or more characters is cut to its first 19 characters, a
\* shorter name is kept whole and padded with spaces.
C8_DisplayName ==
    pc = "return" =>
        /\ Len(row_title) = 20
        /\ row_title[20] = ":"
        /\ LET kept == IF Len(project_name) >= 20 THEN 19 ELSE Len(project_name)
           IN /\ \A k \in 1..kept : row_title[k] = project_name[k]
              /\ \A k \in (kept + 1)..19 : row_title[k] = " "

C8_Witness ==
    /\ pc = "return"
    /\ Len(project_name) = 20

---------------------------------------------------------------------------
(* data_types.py: EmployeePool *)

\* self.pool[role] on a defaultdict(list): a missing key is created empty
PoolTouch(p, role) == IF role \in DOMAIN p THEN p ELSE p @@ (role :> <<>>)

\* EmployeePool.add
PoolAdd(p, e) ==
    LET q == PoolTouch(p, EmployeeRole(e))
    IN [q EXCEPT ![EmployeeRole(e)] = Append(@, e)]

\* EmployeePool.update
RECURSIVE PoolUpdate(_, _)
PoolUpdate(p, es) == IF es = <<>> THEN p ELSE PoolUpdate(PoolAdd(p, Head(es)), Tail(es))

\* EmployeePool.__init__
EmployeePool(es) == PoolUpdate(<<>>, es)

\* variant: reads the last employee of the bucket without removing it
GetByRolePeek(p, role) ==
    LET q == PoolTouch(p, role)
    IN IF Len(q[role]) = 0
       THEN [raised |-> "NoEmployeesLeftException", employee |-> None, pool |-> q]
       ELSE [raised |-> "none", employee |-> q[role][Len(q[role])], pool |-> q]

\* EmployeePool.get_by_role: list.pop() takes the last element; popping an
\* empty list raises IndexError, re-raised as NoEmployeesLeftException
get_by_role(p, role) ==
    LET q == PoolTouch(p, role)
    IN IF Len(q[role]) = 0
       THEN [raised |-> "NoEmployeesLeftException", employee |-> None, pool |-> q]
       ELSE [raised |-> "none",
             employee |-> q[role][Len(q[role])],
             pool |-> [q EXCEPT ![role] = SubSeq(@, 1, Len(@) - 1)]]

RECURSIVE SumLen(_, _)
SumLen(p, rs) ==
    IF rs = {} THEN 0
    ELSE LET r == CHOOSE x \in rs : TRUE IN Len(p[r]) + SumLen(p, rs \ {r})

\* sum(len(v) for v in self.pool.values())
PoolTotal(p) == SumLen(p, DOMAIN p)

\* the employees held by the pool, as a set
PoolMembers(p) == UNION {{p[r][k] : k \in DOMAIN p[r]} : r \in DOMAIN p}

\* lists of pairwise distinct employees
DistinctLists ==
    {l \in SeqsUpTo(Employees, Cardinality(Employees)) :
        \A a, b \in DOMAIN l : a # b => l[a] # l[b]}

\* the lists given to EmployeePool(...): every list of distinct employees,
\* and two lists that name an employee twice
EmployeeLists == DistinctLists \cup {<<"e1", "e1">>, <<"e3", "e1", "e3">>}

---------------------------------------------------------------------------
(* SpecPool: an EmployeePool under get_by_role, add and update *)

InitPool ==
    /\ employees \in EmployeeLists
    /\ pool = EmployeePool(employees)
    /\ pc = "pool"
    /\ op = [name |-> "EmployeePool"]
    /\ ret = [kind |-> "return", value |-> None]
    /\ IdleProject /\ IdleName /\ IdleAlloc /\ IdleStaffed /\ IdleDisplay

PoolUnused == <<team, team_needed, project_name, row_title, employees, projects,
                assigned_roles, staffed_projects, schedule, staffed, display_out>>

GetByRole ==
    \E role \in Roles :
        LET r == get_by_role(pool, role)
        IN /\ pc = "pool"
           /\ pool' = r.pool
           /\ op' = [name |-> "get_by_role", role |-> role]
           /\ ret' = IF r.raised = "none"
                     THEN [kind |-> "return", value |-> r.employee]
                     ELSE [kind |-> "raise", value |-> r.raised]
           /\ UNCHANGED <<pc, PoolUnused>>

Add ==
    \E e \in Employees :
        /\ pc = "pool"
        /\ PoolTotal(pool) < MaxPoolSize
        /\ pool' = PoolAdd(pool, e)
        /\ op' = [name |-> "add", employee |-> e]
        /\ ret' = [kind |-> "return", value |-> None]
        /\ UNCHANGED <<pc, PoolUnused>>

Update ==
    \E es \in SeqsUpTo(Employees, 2) :
        /\ pc = "pool"
        /\ PoolTotal(pool) + Len(es) <= MaxPoolSize
        /\ pool' = PoolUpdate(pool, es)
        /\ op' = [name |-> "update", employees |-> es]
        /\ ret' = [kind |-> "return", value |-> None]
        /\ UNCHANGED <<pc, PoolUnused>>

NextPool == GetByRole \/ Add \/ Update

SpecPool == InitPool /\ [][NextPool]_vars

\* C2: a get_by_role call that returns an employee lowers the total number
\* of employees across all buckets by exactly 1; a get_by_role call that
\* fails with NoEmployeesLeft leaves the total unchanged.
C2_PoolTotal ==
    [][op'.name = "get_by_role" =>
          /\ ret'.kind \in {"return", "raise"}
          /\ ret'.kind = "return" =>
                /\ ret'.value \in Employees
                /\ PoolTotal(pool') = PoolTotal(pool) - 1
          /\ ret'.kind = "raise" =>
                /\ ret'.value = "NoEmployeesLeftException"
                /\ PoolTotal(pool') = PoolTotal(pool)]_vars

C2_Witness ==
    /\ op.name = "get_by_role"
    /\ ret.kind = "return"
    /\ PoolTotal(pool) = 2

---------------------------------------------------------------------------
(* schedule.py: StaffedProject *)

\* Every operation below returns [raised, staffed, value]: the exception
\* that escapes ("none" when the call returns), the object after the call
\* and the value returned.

Outcome(raised, sp, value) == [raised |-> raised, staffed |-> sp, value |-> value]

\* StaffedProject.__init__
StaffedProject(project) ==
    [project |-> project,
     assigments |-> [k \in DOMAIN project.team_needed |->
                        [key |-> project.team_needed[k].key, val |-> None]]]

\* StaffedProject.check_role: TRUE when it raises IndexError
check_role_raises(sp, role_id) == ~DictHas(sp.assigments, role_id)

\* variant: assign without the already-staffed test
AssignUnchecked(sp, role_id, employee) ==
    IF check_role_raises(sp, role_id) THEN Outcome("IndexError", sp, None)
    ELSE Outcome("none",
                 [sp EXCEPT !.assigments = DictSet(@, role_id, employee)], None)

\* StaffedProject.assign
assign(sp, role_id, employee) ==
    IF check_role_raises(sp, role_id) THEN Outcome("IndexError", sp, None)
    ELSE LET role_already_staffed == DictGet(sp.assigments, role_id) # None
         IN IF role_already_staffed
            THEN Outcome("AlreadyStaffedException", sp, None)
            ELSE Outcome("none",
                         [sp EXCEPT !.assigments = DictSet(@, role_id, employee)],
                         None)

\* StaffedProject.assign_or_replace
assign_or_replace(sp, role_id, employee) ==
    IF check_role_raises(sp, role_id) THEN Outcome("IndexError", sp, None)
    ELSE LET previously_assigned == DictGet(sp.assigments, role_id)
         IN Outcome("none",
                    [sp EXCEPT !.assigments = DictSet(@, role_id, employee)],
                    previously_assigned)

\* variant: assign_multiple without its key-set assertion
AssignMultipleNoAssert(sp, new_assignments) ==
    Outcome("none",
            [sp EXCEPT !.assigments = DictUpdate(@, new_assignments)], None)

\* StaffedProject.assign_multiple
assign_multiple(sp, new_assignments) ==
    IF DictKeys(new_assignments) # DictKeys(sp.assigments)
    THEN Outcome("AssertionError", sp, None)
    ELSE Outcome("none",
                 [sp EXCEPT !.assigments = DictUpdate(@, new_assignments)], None)

\* StaffedProject.from_assignments: the new object is the value returned
from_assignments(project, assignments) ==
    LET r == assign_multiple(StaffedProject(project), assignments)
    IN IF r.raised # "none" THEN Outcome(r.raised, r.staffed, None)
       ELSE Outcome("none", r.staffed, r.staffed)

\* StaffedProject.get_roles
get_roles(sp) == [k \in DOMAIN sp.assigments |-> sp.assigments[k].key]

---------------------------------------------------------------------------
(* schedule.py: randomly_staff_project *)

\* [raised, assigned_roles, pool] after one pass of the loop body
\* variant: the loop body without the except clause
StaffSlotNoCatch(assigned, p, role_id, role) ==
    LET r == get_by_role(p, role)
    IN IF r.raised = "none"
       THEN [raised |-> "none", assigned_roles |-> DictSet(assigned, role_id, r.employee),
             pool |-> r.pool]
       ELSE [raised |-> r.raised, assigned_roles |-> assigned, pool |-> r.pool]

\* the try/except of the loop body, for the slot role_id of role `role`
StaffSlot(assigned, p, role_id, role) ==
    LET r == get_by_role(p, role)
    IN IF r.raised = "none"
       THEN [raised |-> "none", assigned_roles |-> DictSet(assigned, role_id, r.employee),
             pool |-> r.pool]
       ELSE IF r.raised = "NoEmployeesLeftException"
       THEN [raised |-> "none", assigned_roles |-> DictSet(assigned, role_id, None),
             pool |-> r.pool]
       ELSE [raised |-> r.raised, assigned_roles |-> assigned, pool |-> r.pool]

\* the loop over project.team_needed.items(), from entry k on
RECURSIVE StaffLoop(_, _, _, _)
StaffLoop(project, k, assigned, p) ==
    IF k > Len(project.team_needed)
    THEN [raised |-> "none", assigned_roles |-> assigned, pool |-> p]
    ELSE LET r == StaffSlot(assigned, p, project.team_needed[k].key,
                            project.team_needed[k].val)
         IN IF r.raised # "none" THEN r
            ELSE StaffLoop(project, k + 1, r.assigned_roles, r.pool)

\* randomly_staff_project as one call: [raised, staffed, value, pool]
randomly_staff_project(project, p) ==
    LET l == StaffLoop(project, 1, <<>>, p)
        r == from_assignments(project, l.assigned_roles)
    IN IF l.raised # "none"
       THEN [raised |-> l.raised, value |-> None, pool |-> l.pool]
       ELSE [raised |-> r.raised, value |-> r.value, pool |-> l.pool]

---------------------------------------------------------------------------
(* The projects given to the staffing operations *)

Teams ==
    {<<>>, <<"TECHNICAL">>, <<"COMMERCIAL">>, <<"TECHNICAL", "TECHNICAL">>,
     <<"TECHNICAL", "COMMERCIAL">>, <<"OVERSIGHT", "TECHNICAL">>,
     <<"TECHNICAL", "COMMERCIAL", "TECHNICAL">>,
     <<"TECHNICAL", "TECHNICAL", "TECHNICAL">>}

StaffingProjects == {Project(1, 22, tm, <<"p">>) : tm \in Teams}

---------------------------------------------------------------------------
(* schedule.py: Schedule *)

\* Schedule.__init__
Schedule == [assignments |-> <<>>]

\* Schedule.from_assignments: the local schedule is extended and the method
\* ends without a return statement, so the call evaluates to None
Schedule_from_assignments(assignments) ==
    LET local == [Schedule EXCEPT !.assignments = @ \o assignments]
    IN [kind |-> "None", value |-> None]

---------------------------------------------------------------------------
(* Spec: Schedule.from_projects(projects, pool), one loop pass per step,   *)
(* followed by Schedule.from_assignments calls on the lists it produced    *)

Init ==
    /\ employees \in EmployeeLists
    /\ pool = EmployeePool(employees)
    /\ projects \in SeqsUpTo(StaffingProjects, MaxProjects)
    /\ pc = "staffing"
    /\ assigned_roles = <<>>
    /\ staffed_projects = <<>>
    /\ schedule = Schedule
    /\ op = [name |-> "Schedule.from_projects"]
    /\ ret = [kind |-> "running", value |-> None]
    /\ IdleProject /\ IdleName /\ IdleStaffed /\ IdleDisplay

AllocUnused == <<team, team_needed, project_name, row_title, employees, projects,
                 staffed, display_out>>

\* index of the project being staffed, and of the slot being filled
ProjectIndex == Len(staffed_projects) + 1
SlotIndex == Len(assigned_roles) + 1

\* one pass of the loop of randomly_staff_project
StaffOneSlot ==
    /\ pc = "staffing"
    /\ ProjectIndex <= Len(projects)
    /\ SlotIndex <= Len(projects[ProjectIndex].team_needed)
    /\ LET slot == projects[ProjectIndex].team_needed[SlotIndex]
           r == StaffSlot(assigned_roles, pool, slot.key, slot.val)
       IN /\ pool' = r.pool
          /\ assigned_roles' = r.assigned_roles
          /\ pc' = IF r.raised = "none" THEN "staffing" ELSE "raised"
          /\ ret' = IF r.raised = "none" THEN ret
                    ELSE [kind |-> "raise", value |-> r.raised]
    /\ UNCHANGED <<staffed_projects, schedule, op, AllocUnused>>

\* the end of randomly_staff_project and the append in from_projects
FinishProject ==
    /\ pc = "staffing"
    /\ ProjectIndex <= Len(projects)
    /\ SlotIndex > Len(projects[ProjectIndex].team_needed)
    /\ LET r == from_assignments(projects[ProjectIndex], assigned_roles)
       IN IF r.raised = "none"
          THEN /\ staffed_projects' = Append(staffed_projects, r.value)
               /\ assigned_roles' = <<>>
               /\ UNCHANGED <<pc, ret>>
          ELSE /\ pc' = "raised"
               /\ ret' = [kind |-> "raise", value |-> r.raised]
               /\ UNCHANGED <<staffed_projects, assigned_roles>>
    /\ UNCHANGED <<pool, schedule, op, AllocUnused>>

\* schedule.assignments = staffed_projects; return schedule
ReturnSchedule ==
    /\ pc = "staffing"
    /\ ProjectIndex > Len(projects)
    /\ schedule' = [schedule EXCEPT !.assignments = staffed_projects]
    /\ ret' = [kind |-> "Schedule", value |-> schedule']
    /\ pc' = "done"
    /\ UNCHANGED <<pool, assigned_roles, staffed_projects, op, AllocUnused>>

Reverse(l) == [k \in DOMAIN l |-> l[Len(l) + 1 - k]]

\* the caller builds a Schedule from StaffedProjects it already holds
FromAssignments ==
    /\ pc = "done"
    /\ \E n \in 0..Len(schedule.assignments), rev \in BOOLEAN :
          LET lst == IF rev THEN Reverse(SubSeq(schedule.assignments, 1, n))
                     ELSE SubSeq(schedule.assignments, 1, n)
          IN /\ op' = [name |-> "Schedule.from_assignments", assignments |-> lst]
             /\ ret' = Schedule_from_assignments(lst)
    /\ UNCHANGED <<pc, pool, assigned_roles, staffed_projects, schedule, AllocUnused>>

Next == StaffOneSlot \/ FinishProject \/ ReturnSchedule \/ FromAssignments

Spec == Init /\ [][Next]_vars

\* the slots bound so far: <<project index, slot index, employee>> for every
\* finished StaffedProject and for the project being staffed
BoundOf(sps, cur) ==
    UNION {{<<i, k, sps[i].assigments[k].val>> : k \in DOMAIN sps[i].assigments} :
              i \in DOMAIN sps}
    \cup {<<Len(sps) + 1, k, cur[k].val>> : k \in DOMAIN cur}
Bound == {b \in BoundOf(staffed_projects, assigned_roles) : b[3] # None}

\* C6: randomly_staff_project never raises: each pass of its loop handles
\* the next slot in the project's slot-key order, binds it to the employee
\* taken from the pool exactly when the bucket of the slot's role is
\* non-empty at that moment and to None otherwise; the StaffedProject
\* returned holds those bindings; and against an empty pool every slot of
\* every StaffedProject is None.
C6_AllocationNeverRaises ==
    /\ [](pc # "raised")
    /\ [][Len(assigned_roles') = Len(assigned_roles) + 1 =>
            LET slot == projects[ProjectIndex].team_needed[SlotIndex]
                has == slot.val \in DOMAIN pool /\ Len(pool[slot.val]) > 0
                got == assigned_roles'[SlotIndex]
            IN /\ got.key = slot.key
               /\ SubSeq(assigned_roles', 1, Len(assigned_roles)) = assigned_roles
               /\ has <=> got.val # None
               /\ has => /\ got.val = pool[slot.val][Len(pool[slot.val])]
                         /\ pool'[slot.val]
                               = SubSeq(pool[slot.val], 1, Len(pool[slot.val]) - 1)
                         /\ PoolTotal(pool') = PoolTotal(pool) - 1
               /\ ~has => PoolTotal(pool') = PoolTotal(pool)]_vars
    /\ [][Len(staffed_projects') = Len(staffed_projects) + 1 =>
            /\ staffed_projects'[ProjectIndex].assigments = assigned_roles
            /\ Len(assigned_roles) = Len(projects[ProjectIndex].team_needed)]_vars
    /\ [](pc = "done" /\ employees = <<>> =>
            /\ Len(schedule.assignments) = Len(projects)
            /\ \A i \in DOMAIN schedule.assignments :
                  \A k \in DOMAIN schedule.assignments[i].assigments :
                      schedule.assignments[i].assigments[k].val = None)

\* a slot was left unassigned because its bucket had run out, while an
\* earlier slot of the same role was filled
C6_Witness ==
    /\ pc = "done"
    /\ \E i \in DOMAIN schedule.assignments :
          LET a == schedule.assignments[i].assigments
          IN \E k, m \in DOMAIN a :
                /\ k < m
                /\ a[k].val # None
                /\ a[m].val = None
                /\ projects[i].team_needed[k].val = projects[i].team_needed[m].val

\* C7 (as stated): Schedule.from_assignments(list) returns a Schedule whose
\* assignments are the given list, and Schedule.from_projects returns a
\* Schedule with one StaffedProject per input Project, in list order.
C7_BothPathsReturnSchedule ==
    /\ op.name = "Schedule.from_assignments" =>
          /\ ret.kind = "Schedule"
          /\ ret.value.assignments = op.assignments
    /\ (op.name = "Schedule.from_projects" /\ pc = "done") =>
          /\ ret.kind = "Schedule"
          /\ Len(ret.value.assignments) = Len(projects)
          /\ \A i \in DOMAIN projects : ret.value.assignments[i].project = projects[i]

\* C10: from a pool built from pairwise distinct employees, at every point
\* of from_projects no employee is bound to two slots, no bound employee is
\* still in the pool, every bound employee has the role its slot requires,
\* and the bound employees together with the pool are exactly the initial
\* employees.
C10_Conservation ==
    (employees \in DistinctLists /\ pc \in {"staffing", "done"}) =>
        /\ \A a, b \in Bound : a[3] = b[3] => a = b
        /\ {b[3] : b \in Bound} \cap PoolMembers(pool) = {}
        /\ \A b \in Bound :
              EmployeeRole(b[3]) = projects[b[1]].team_needed[b[2]].val
        /\ {b[3] : b \in Bound} \cup PoolMembers(pool)
              = {employees[k] : k \in DOMAIN employees}
        /\ Cardinality(Bound) + PoolTotal(pool) = Len(employees)

\* two projects each took an employee, and one employee is left in the pool
C10_Witness ==
    /\ pc = "done"
    /\ employees \in DistinctLists
    /\ \E a, b \in Bound : a[1] # b[1]
    /\ PoolTotal(pool) = 1

---------------------------------------------------------------------------
(* SpecStaffed: one StaffedProject, built by any of its construction paths *)
(* and then changed by assign, assign_or_replace and assign_multiple       *)

\* every slot id of every project, so calls also name slots the project lacks
RoleIds == UNION {DictKeys(p.team_needed) : p \in StaffingProjects}

KeyLists ==
    {get_roles(StaffedProject(p)) : p \in StaffingProjects}
    \cup {Reverse(get_roles(StaffedProject(p))) : p \in StaffingProjects}

MultipleValues == {None, "e1", "e3"}

\* the dicts given to assign_multiple and from_assignments
AssignmentDicts ==
    UNION {{[k \in DOMAIN ks |-> [key |-> ks[k], val |-> v[k]]] :
               v \in [DOMAIN ks -> MultipleValues]} : ks \in KeyLists}

Result(r) ==
    IF r.raised = "none" THEN [kind |-> "return", value |-> r.value]
    ELSE [kind |-> "raise", value |-> r.raised]

InitStaffed ==
    /\ projects \in {<<p>> : p \in StaffingProjects}
    /\ pc = "no_object"
    /\ IdleStaffed
    /\ op = [name |-> Idle]
    /\ ret = [kind |-> Idle, value |-> None]
    /\ assigned_roles = <<>> /\ staffed_projects = <<>> /\ schedule = Schedule
    /\ IdleProject /\ IdleName /\ IdlePool /\ IdleDisplay

StaffedUnused == <<team, team_needed, project_name, row_title, employees, pool,
                   projects, assigned_roles, staffed_projects, schedule,
                   display_out>>

\* StaffedProject(project)
New ==
    /\ pc = "no_object"
    /\ staffed' = StaffedProject(projects[1])
    /\ pc' = "held"
    /\ op' = [name |-> "StaffedProject"]
    /\ ret' = [kind |-> "return", value |-> None]
    /\ UNCHANGED StaffedUnused

\* StaffedProject.from_assignments(project, assignments)
NewFromAssignments ==
    /\ pc = "no_object"
    /\ \E d \in AssignmentDicts :
          LET r == from_assignments(projects[1], d)
          IN /\ staffed' = IF r.raised = "none" THEN r.value ELSE staffed
             /\ pc' = IF r.raised = "none" THEN "held" ELSE pc
             /\ ret' = [kind |-> IF r.raised = "none" THEN "return" ELSE "raise",
                        value |-> IF r.raised = "none" THEN None ELSE r.raised]
    /\ op' = [name |-> "StaffedProject.from_assignments"]
    /\ UNCHANGED StaffedUnused

\* randomly_staff_project(project, EmployeePool(es)), the pool being the
\* caller's own
NewRandomlyStaffed ==
    /\ pc = "no_object"
    /\ \E es \in EmployeeLists :
          LET r == randomly_staff_project(projects[1], EmployeePool(es))
          IN /\ staffed' = IF r.raised = "none" THEN r.value ELSE staffed
             /\ pc' = IF r.raised = "none" THEN "held" ELSE pc
             /\ ret' = [kind |-> IF r.raised = "none" THEN "return" ELSE "raise",
                        value |-> IF r.raised = "none" THEN None ELSE r.raised]
    /\ op' = [name |-> "randomly_staff_project"]
    /\ UNCHANGED StaffedUnused

Assign ==
    /\ pc = "held"
    /\ \E role_id \in RoleIds, e \in Employees :
          LET r == assign(staffed, role_id, e)
          IN /\ staffed' = r.staffed
             /\ op' = [name |-> "assign", role_id |-> role_id]
             /\ ret' = Result(r)
    /\ UNCHANGED <<pc, StaffedUnused>>

AssignOrReplace ==
    /\ pc = "held"
    /\ \E role_id \in RoleIds, e \in Employees \cup {None} :
          LET r == assign_or_replace(staffed, role_id, e)
          IN /\ staffed' = r.staffed
             /\ op' = [name |-> "assign_or_replace", role_id |-> role_id]
             /\ ret' = Result(r)
    /\ UNCHANGED <<pc, StaffedUnused>>

AssignMultiple ==
    /\ pc = "held"
    /\ \E d \in AssignmentDicts :
          LET r == assign_multiple(staffed, d)
          IN /\ staffed' = r.staffed
             /\ op' = [name |-> "assign_multiple"]
             /\ ret' = Result(r)
    /\ UNCHANGED <<pc, StaffedUnused>>

NextStaffed ==
    \/ New \/ NewFromAssignments \/ NewRandomlyStaffed
    \/ Assign \/ AssignOrReplace \/ AssignMultiple

SpecStaffed == InitStaffed /\ [][NextStaffed]_vars

\* C1: the key set of the assignments map of a StaffedProject equals the
\* key set of project.team_needed, however the object was built and
\* whatever calls, successful or failing, were made on it.
C1_KeySets ==
    pc = "held" =>
        /\ staffed.project = projects[1]
        /\ DictKeys(staffed.assigments) = DictKeys(staffed.project.team_needed)
        /\ Len(staffed.assigments) = Cardinality(DictKeys(staffed.assigments))

\* a failed assign_multiple (wrong key set) on an object that holds employees
C1_Witness ==
    /\ pc = "held"
    /\ op.name = "assign_multiple"
    /\ ret.kind = "raise"
    /\ \E k \in DOMAIN staffed.assigments : staffed.assigments[k].val # None

\* C3: assign on a known slot that holds an employee fails with
\* AlreadyStaffed, assign on an unknown slot fails with IndexError, and in
\* both cases the StaffedProject is exactly as before the call.
C3_AssignNeverOverwrites ==
    [][op'.name = "assign" =>
          /\ (/\ DictHas(staffed.assigments, op'.role_id)
              /\ DictGet(staffed.assigments, op'.role_id) # None)
                => /\ ret' = [kind |-> "raise", value |-> "AlreadyStaffedException"]
                   /\ staffed' = staffed
          /\ ~DictHas(staffed.assigments, op'.role_id)
                => /\ ret' = [kind |-> "raise", value |-> "IndexError"]
                   /\ staffed' = staffed]_vars

C3_Witness ==
    /\ op.name = "assign"
    /\ ret = [kind |-> "raise", value |-> "AlreadyStaffedException"]
    /\ DictGet(staffed.assigments, op.role_id) # None

\* TRUE when some slot that holds an employee in a holds nothing or another
\* employee in b
FilledSlotChanged(a, b) ==
    \E k \in DOMAIN a :
        /\ a[k].val # None
        /\ DictHas(b, a[k].key) => DictGet(b, a[k].key) # a[k].val

\* C4 (as stated): whenever a slot that holds an employee comes to hold
\* nothing or a different employee, the operation performed is
\* assign_or_replace.
C4_OnlyAssignOrReplace ==
    [][(pc = "held" /\ FilledSlotChanged(staffed.assigments, staffed'.assigments))
          => op'.name = "assign_or_replace"]_vars

\* C4 (amended): whenever a slot that holds an employee comes to hold
\* nothing or a different employee, the operation performed is
\* assign_or_replace or assign_multiple; assign never changes a filled slot.
C4_OnlyReplaceOrMultiple ==
    [][(pc = "held" /\ FilledSlotChanged(staffed.assigments, staffed'.assigments))
          => op'.name \in {"assign_or_replace", "assign_multiple"}]_vars

\* assign_or_replace returned the employee it displaced
C4_Witness ==
    /\ op.name = "assign_or_replace"
    /\ ret.kind = "return"
    /\ ret.value # None
    /\ DictGet(staffed.assigments, op.role_id) # ret.value

---------------------------------------------------------------------------
(* schedule.py: date helpers and Schedule.display *)

\* "Week Number"
PROJECT_COL_TITLE == <<"W", "e", "e", "k", " ", "N", "u", "m", "b", "e", "r">>

\* date.weekday() of the date with ordinal d: 0 for Monday .. 6 for Sunday
\* (ordinal 1, 0001-01-01, is a Monday)
weekday(d) == (d + 6) % 7

get_previous_monday(input_date) == input_date - weekday(input_date)

RECURSIVE SeqMin(_)
SeqMin(l) == IF Len(l) = 1 THEN l[1] ELSE Min(l[1], SeqMin(Tail(l)))
RECURSIVE SeqMax(_)
SeqMax(l) == IF Len(l) = 1 THEN l[1] ELSE Max(l[1], SeqMax(Tail(l)))

\* Schedule.get_first_monday, for a non-empty schedule
get_first_monday(sch) ==
    LET earliest_start_date ==
            SeqMin([k \in DOMAIN sch.assignments |-> sch.assignments[k].project.start_date])
    IN get_previous_monday(earliest_start_date)

\* Schedule.get_last_monday, for a non-empty schedule
get_last_monday(sch) ==
    LET latest_end_date ==
            SeqMax([k \in DOMAIN sch.assignments |-> sch.assignments[k].project.end_date])
    IN get_previous_monday(latest_end_date)

\* variant: the row without the weeks after the project's end
MakeDisplayRowNoTail(first_monday, last_monday, n_weeks, staffed_project) ==
    LET project_first_monday == get_previous_monday(staffed_project.project.start_date)
        start_weeks == (project_first_monday - first_monday) \div DAYS_PER_WEEK
    IN Repeat(<<"_", "_", "_">>, start_weeks)
       \o Repeat(<<"#", "#", "#">>, n_weeks - start_weeks)

\* Schedule.make_display_row
make_display_row(first_monday, last_monday, n_weeks, staffed_project) ==
    LET project_first_monday == get_previous_monday(staffed_project.project.start_date)
        project_last_monday == get_previous_monday(staffed_project.project.end_date)
        start_weeks == (project_first_monday - first_monday) \div DAYS_PER_WEEK
        end_weeks == (last_monday - project_last_monday) \div DAYS_PER_WEEK
        project_length == n_weeks - start_weeks - end_weeks
    IN Repeat(<<"_", "_", "_">>, start_weeks)
       \o Repeat(<<"#", "#", "#">>, project_length)
       \o Repeat(<<"_", "_", "_">>, end_weeks)

\* str(n) for n >= 0, as characters
RECURSIVE Digits(_)
Digits(n) ==
    LET d == <<"0", "1", "2", "3", "4", "5", "6", "7", "8", "9">>[(n % 10) + 1]
    IN IF n < 10 THEN <<d>> ELSE Digits(n \div 10) \o <<d>>

\* f"{n:>3}"
RightJustify3(n) == Repeat(<<" ">>, 3 - Len(Digits(n))) \o Digits(n)

\* "".join([f"{i + 1:>3}" for i in range(n_weeks)])
RECURSIVE WeekNumberStrings(_)
WeekNumberStrings(n_weeks) ==
    IF n_weeks <= 0 THEN <<>>
    ELSE WeekNumberStrings(n_weeks - 1) \o RightJustify3(n_weeks)

\* the sort key of display, and the order of Python tuples
SortKey(sp) == <<get_previous_monday(sp.project.start_date),
                 get_previous_monday(sp.project.end_date)>>
KeyLess(a, b) == a[1] < b[1] \/ (a[1] = b[1] /\ a[2] < b[2])

\* sorted(..., key=...): a stable sort
RECURSIVE InsertSorted(_, _)
InsertSorted(l, x) ==
    IF l = <<>> THEN <<x>>
    ELSE IF KeyLess(SortKey(x), SortKey(Head(l))) THEN <<x>> \o l
    ELSE <<Head(l)>> \o InsertSorted(Tail(l), x)
RECURSIVE Sorted(_)
Sorted(l) ==
    IF l = <<>> THEN <<>>
    ELSE InsertSorted(Sorted(SubSeq(l, 1, Len(l) - 1)), l[Len(l)])

\* "\n".join(lines)
RECURSIVE JoinLines(_)
JoinLines(lines) ==
    IF lines = <<>> THEN <<>>
    ELSE IF Len(lines) = 1 THEN lines[1]
    ELSE lines[1] \o <<"\n">> \o JoinLines(Tail(lines))

\* Schedule.display: [raised, value]; min() of no dates raises ValueError
display(sch) ==
    IF sch.assignments = <<>> THEN [raised |-> "ValueError", value |-> <<>>]
    ELSE
    LET first_monday == get_first_monday(sch)
        last_monday == get_last_monday(sch)
        n_weeks == (last_monday - first_monday) \div DAYS_PER_WEEK
        week_number_strings == WeekNumberStrings(n_weeks)
        header == <<Repeat(<<" ">>, PROJECT_NAME_LEN_CHARS) \o <<"W", "e", "e", "k", " ", "N", "u", "m", "b", "e", "r">>,
                    PROJECT_COL_TITLE
                    \o Repeat(<<" ">>, PROJECT_NAME_LEN_CHARS - Len(PROJECT_COL_TITLE))
                    \o week_number_strings>>
        ordered == Sorted(sch.assignments)
        rows == [k \in DOMAIN ordered |->
                    get_project_name_for_display(ordered[k].project.project_name)
                    \o make_display_row(first_monday, last_monday, n_weeks, ordered[k])]
    IN [raised |-> "none", value |-> JoinLines(header \o rows)]

---------------------------------------------------------------------------
(* SpecDisplay: Schedule.display over schedules of dated projects *)

Days == 1..MaxDay
SparseDays == {d \in Days : weekday(d) \in {0, 3, 6}}
Mondays == {d \in Days : weekday(d) = 0}

LongName == NameOf(25, 1)

Dated(S, names) ==
    {StaffedProject(Project(a, b, <<>>, n)) : a \in S, b \in S, n \in names}

\* one project over every pair of days, two over a thinner set of days,
\* three over Mondays, and the empty schedule
DisplaySchedules ==
    {<<>>}
    \cup {<<p>> : p \in Dated(Days, {<<"p">>, LongName})}
    \cup {<<p, q>> : p \in Dated(SparseDays, {<<"p">>}), q \in Dated(SparseDays, {<<"q">>})}
    \cup {<<p, q, r>> : p \in Dated(Mondays, {<<"p">>}), q \in Dated(Mondays, {<<"q">>}),
                        r \in Dated(Mondays, {<<"r">>})}

InitDisplay ==
    /\ schedule \in {[assignments |-> a] : a \in DisplaySchedules}
    /\ pc = "call"
    /\ display_out = <<>>
    /\ op = [name |-> "display"]
    /\ ret = [kind |-> "running", value |-> None]
    /\ projects = <<>> /\ assigned_roles = <<>> /\ staffed_projects = <<>>
    /\ IdleProject /\ IdleName /\ IdlePool /\ IdleStaffed

Display ==
    /\ pc = "call"
    /\ LET r == display(schedule)
       IN /\ display_out' = r.value
          /\ ret' = IF r.raised = "none" THEN [kind |-> "return", value |-> None]
                    ELSE [kind |-> "raise", value |-> r.raised]
    /\ pc' = "return"
    /\ UNCHANGED <<team, team_needed, project_name, row_title, employees, pool,
                   projects, assigned_roles, staffed_projects, schedule, staffed, op>>

NextDisplay == Display

SpecDisplay == InitDisplay /\ [][NextDisplay]_vars

\* the lines of a text: its pieces between "\n" characters
RECURSIVE SplitLines(_)
SplitLines(text) ==
    IF \A k \in DOMAIN text : text[k] # "\n" THEN <<text>>
    ELSE LET cut == CHOOSE k \in DOMAIN text :
                        text[k] = "\n" /\ \A j \in 1..(k - 1) : text[j] # "\n"
         IN <<SubSeq(text, 1, cut - 1)>> \o SplitLines(SubSeq(text, cut + 1, Len(text)))

\* the number of whole weeks from ordinal 1 (a Monday) to the Monday on or
\* before day d
WeekOf(d) == (d - 1) \div 7

FirstWeek(a) == SeqMin([k \in DOMAIN a |-> WeekOf(a[k].project.start_date)])
LastWeek(a) == SeqMax([k \in DOMAIN a |-> WeekOf(a[k].project.end_date)])

\* the bar of sw blocks "___", mid blocks "###" and ew blocks "___", for
\* counts that are all non-negative
Blocks(sw, mid, ew) ==
    [k \in 1..(3 * (sw + mid + ew)) |->
        IF k > 3 * sw /\ k <= 3 * (sw + mid) THEN "#" ELSE "_"]

\* the part of a display line after the 20-character name cell
BarOf(line) == SubSeq(line, 21, Len(line))

\* C9: for a non-empty Schedule whose projects all have start_date <
\* end_date, display() gives two header lines and one row per project;
\* with n_weeks the number of weeks from the first to the last Monday, every
\* row has a bar of exactly n_weeks blocks: start_weeks "___", then
\* n_weeks - start_weeks - end_weeks "###", then end_weeks "___", all three
\* counts non-negative; one project starting on a Monday and ending 21 days
\* later gives n_weeks = 3 and the bar "#########".
C9_DisplayBars ==
    LET a == schedule.assignments
    IN (/\ pc = "return"
        /\ a # <<>>
        /\ \A k \in DOMAIN a : a[k].project.start_date < a[k].project.end_date)
       =>
       LET lines == SplitLines(display_out)
           n_weeks == LastWeek(a) - FirstWeek(a)
           sw(j) == WeekOf(a[j].project.start_date) - FirstWeek(a)
           ew(j) == LastWeek(a) - WeekOf(a[j].project.end_date)
           Expected(j) == Blocks(sw(j), n_weeks - sw(j) - ew(j), ew(j))
       IN /\ ret.kind = "return"
          /\ Len(lines) = Len(a) + 2
          /\ Len(lines[2]) = 20 + 3 * n_weeks
          /\ \A j \in DOMAIN a :
                /\ sw(j) >= 0 /\ ew(j) >= 0 /\ n_weeks - sw(j) - ew(j) >= 0
                /\ \E k \in 3..Len(lines) : BarOf(lines[k]) = Expected(j)
          /\ \A k \in 3..Len(lines) :
                /\ Len(BarOf(lines[k])) = 3 * n_weeks
                /\ \E j \in DOMAIN a : BarOf(lines[k]) = Expected(j)
          /\ (/\ Len(a) = 1
              /\ weekday(a[1].project.start_date) = 0
              /\ a[1].project.end_date = a[1].project.start_date + 21)
                => /\ n_weeks = 3
                   /\ BarOf(lines[3]) = <<"#", "#", "#", "#", "#", "#", "#", "#", "#">>

\* two projects, one of whose rows has a leading and a trailing "___" block
C9_Witness ==
    /\ pc = "return"
    /\ Len(schedule.assignments) = 2
    /\ \A k \in DOMAIN schedule.assignments :
          schedule.assignments[k].project.start_date
             < schedule.assignments[k].project.end_date
    /\ \E k \in 3..4 :
          BarOf(SplitLines(display_out)[k])
             = <<"_", "_", "_", "#", "#", "#", "_", "_", "_">>

====
